---- MODULE Spec2Model ----
(***************************************************************************)
(* Model of torchrl/data/tensordict/memmap.py: MemmapTensor, a tensor      *)
(* interface over a np.memmap array backed by a temporary file, and its    *)
(* ownership / serialization protocol.                                     *)
(*                                                                         *)
(* A tensor is a record (device, dtype, shape, row-major data).  The       *)
(* filesystem is the sequence of temporary files ever created: the index   *)
(* of a file is its name (tempfile draws a fresh name each time), exists   *)
(* tells whether the name is still linked, data is the file's content      *)
(* (still reachable through an open mapping after the name is unlinked).   *)
(***************************************************************************)
EXTENDS Integers, Sequences, FiniteSets

\* Bounds of the model.
MaxHandles == 3
MaxStates == 2
MaxDataHandles == 2
MaxDataStates == 1

Values == {0, 1}
\* _memmap_array = None
NoMap == 0
\* state["file"] = None
NoFile == [name |-> 0, delete |-> FALSE]

RECURSIVE Numel(_)
Numel(shape) == IF shape = <<>> THEN 1 ELSE Head(shape) * Numel(Tail(shape))

Datas == [1..2 -> Values]

\* The values a caller can pass as elem / other / value.  One record shape
\* for all of them: kind is the Python type, id the handle for a
\* MemmapTensor argument.
Arg(kind, id, device, dtype, shape, data, requires_grad) ==
    [kind |-> kind, id |-> id, device |-> device, dtype |-> dtype,
     shape |-> shape, data |-> data, requires_grad |-> requires_grad]

Zeros == [i \in 1..2 |-> 0]

\* torch.Tensor values: on the host or on an accelerator, and one that
\* requires grad.
Tensors ==
    { Arg("Tensor", 0, "cpu", "float32", <<2>>, d, FALSE) : d \in Datas }
    \cup { Arg("Tensor", 0, "cuda:0", "int64", <<1, 2>>, d, FALSE) : d \in Datas }
    \cup { Arg("Tensor", 0, "cpu", "float32", <<2>>, Zeros, TRUE) }

\* Values that are no torch.Tensor: a numpy array and a string.
NonTensors ==
    { Arg("ndarray", 0, "cpu", "float32", <<2>>, Zeros, FALSE),
      Arg("str", 0, "cpu", "float32", <<>>, <<>>, FALSE) }

Scalars ==
    { Arg("float", 0, "cpu", "float32", <<>>, <<0>>, FALSE),
      Arg("int", 0, "cpu", "float32", <<>>, <<1>>, FALSE) }

Memmap(id) == Arg("MemmapTensor", id, "cpu", "float32", <<>>, <<>>, FALSE)

\* handles: the __dict__ of every MemmapTensor object created so far;
\* live: the objects not yet destroyed; fs: the temporary files; states: the
\* pickled states produced so far; ret: the outcome of the last call.
VARIABLES handles, live, fs, states, ret

vars == <<handles, live, fs, states, ret>>

\* The outcome of the last call: the exception it raised ("none" when it
\* returned) and the value it returned.
Return(val) == [err |-> "none", val |-> val]
Raised(e) == [err |-> e, val |-> <<>>]

Raise(e) ==
    /\ ret' = Raised(e)
    /\ UNCHANGED <<handles, live, fs, states>>

----------------------------------------------------------------------------
\* tempfile and np.memmap

\* tempfile.NamedTemporaryFile(): a new empty file under a fresh name.
NamedTemporaryFile(fsys) == Append(fsys, [exists |-> TRUE, data |-> <<>>])

\* FileClose, unlinking whatever the delete flag says.
FileCloseAlways(file, fsys) ==
    IF file.name # 0 /\ fsys[file.name].exists
    THEN [fsys EXCEPT ![file.name].exists = FALSE]
    ELSE fsys

\* _TemporaryFileCloser.close(): closes the descriptor and, if delete,
\* unlinks self.name (FileNotFoundError if it is gone already).
FileClose(file, fsys) ==
    IF file.delete /\ fsys[file.name].exists
    THEN [fsys EXCEPT ![file.name].exists = FALSE]
    ELSE fsys

\* np.memmap(filename, mode="r+", shape=...) cannot open a missing file.
CanOpen(self, fsys) == self._memmap_array # NoMap \/ fsys[self.filename].exists

\* np.memmap in mode r+ grows a shorter file to the mapped size with zeros.
Grow(data, n) == [i \in 1..n |-> IF i <= Len(data) THEN data[i] ELSE 0]

\* MemmapTensor._get_memmap_array: the cached mapping, else a new one.
_get_memmap_array(self) ==
    IF self._memmap_array = NoMap
    THEN [self EXCEPT !._memmap_array = self.filename]
    ELSE self

\* The file after the mapping of self has been opened.
MapFile(self, fsys) ==
    IF self._memmap_array = NoMap
    THEN [fsys EXCEPT ![self.filename].data = Grow(@, Numel(self._shape))]
    ELSE fsys

\* idx = None
NoIdx == 0

\* _save_item writing the first element only.
SaveItemFirst(self, fsys, value, idx) ==
    [fsys EXCEPT ![self._memmap_array].data[1] = value.data[1]]

\* MemmapTensor._save_item: value.cpu().numpy() written into the mapping,
\* whole (idx None) or at idx.
_save_item(self, fsys, value, idx) ==
    IF idx = NoIdx
    THEN [fsys EXCEPT ![self._memmap_array].data = value.data]
    ELSE [fsys EXCEPT ![self._memmap_array].data[idx] = value.data[1]]

\* _copy_item copying nothing.
CopyItemSkips(self, fsys, filename) == fsys

\* MemmapTensor._copy_item: the content of the file filename, mapped
\* read-only with the shape and dtype of self, written into the mapping.
_copy_item(self, fsys, filename) ==
    [fsys EXCEPT ![self._memmap_array].data = fsys[filename].data]

\* torch.as_tensor(memmap_array, device=self.device) shares the memory of
\* the mapping when the device is the host and copies it otherwise.
Aliases(self) == self._device = "cpu"

\* MemmapTensor._np_to_tensor
_np_to_tensor(self, memmap_data) ==
    Arg("Tensor", 0, self._device, self._dtype, self._shape, memmap_data, FALSE)

\* MemmapTensor._load_item with idx None, the mapping of self being open.
_load_item(self, fsys) == _np_to_tensor(self, fsys[self._memmap_array].data)

----------------------------------------------------------------------------
\* Construction

\* The attributes __init__ sets, name being the name of the temporary file.
NewSelf(elem, transfer_ownership, name) ==
    [filename |-> name,
     file |-> [name |-> name, delete |-> TRUE],
     transfer_ownership |-> transfer_ownership,
     _has_ownership |-> TRUE,
     _memmap_array |-> NoMap,
     _device |-> elem.device,
     _shape |-> elem.shape,
     _dtype |-> elem.dtype]

\* MemmapTensor(elem, transfer_ownership) for elem a torch.Tensor.
InitFromTensor(elem, transfer_ownership) ==
    LET fs1 == NamedTemporaryFile(fs)
        self0 == NewSelf(elem, transfer_ownership, Len(fs1))
        self == _get_memmap_array(self0)
        fs2 == MapFile(self0, fs1)
    IN /\ ret' = Return(<<>>)
       /\ UNCHANGED states
       /\ handles' = Append(handles, self)
       /\ live' = live \cup {Len(handles) + 1}
       /\ fs' = _save_item(self, fs2, elem, NoIdx)

\* MemmapTensor(elem, transfer_ownership) for elem the MemmapTensor e.
\* elem.requires_grad materializes elem (opening its mapping); _copy_item
\* opens the file of elem by name.  When that fails the half-built object
\* is collected and its temporary file removed with it.
InitFromMemmap(e, transfer_ownership) ==
    LET elem == handles[e] IN
    IF ~CanOpen(elem, fs) \/ ~fs[elem.filename].exists
    THEN Raise("FileNotFoundError")
    ELSE LET elem1 == _get_memmap_array(elem)
             fs1 == NamedTemporaryFile(MapFile(elem, fs))
             src == _load_item(elem1, fs1)
             self0 == NewSelf(src, transfer_ownership, Len(fs1))
             self == _get_memmap_array(self0)
             fs2 == MapFile(self0, fs1)
         IN /\ ret' = Return(<<>>)
            /\ UNCHANGED states
            /\ handles' = Append([handles EXCEPT ![e] = elem1], self)
            /\ live' = live \cup {Len(handles) + 1}
            /\ fs' = _copy_item(self, fs2, elem.filename)

\* __init__ without its checks of elem.
InitUnchecked(elem, transfer_ownership) ==
    IF elem.kind = "MemmapTensor"
    THEN InitFromMemmap(elem.id, transfer_ownership)
    ELSE InitFromTensor(elem, transfer_ownership)

\* MemmapTensor.__init__
__init__(elem, transfer_ownership) ==
    IF elem.kind \notin {"Tensor", "MemmapTensor"}
    THEN Raise("TypeError")
    ELSE IF elem.requires_grad
    THEN Raise("RuntimeError")
    ELSE IF elem.kind = "MemmapTensor"
    THEN InitFromMemmap(elem.id, transfer_ownership)
    ELSE InitFromTensor(elem, transfer_ownership)

\* MemmapTensor.clone
clone(h) == __init__(Memmap(h), FALSE)

----------------------------------------------------------------------------
\* Ownership and serialization

\* set_transfer_ownership releasing the file at once when value is True.
SetTransferOwnershipEager(h, value) ==
    IF value.kind # "bool"
    THEN Raise("TypeError")
    ELSE /\ ret' = Return(<<>>)
         /\ UNCHANGED <<live, fs, states>>
         /\ handles' = [handles EXCEPT ![h].transfer_ownership = value.v,
                                       ![h].file.delete = @ /\ ~value.v]

\* MemmapTensor.set_transfer_ownership
set_transfer_ownership(h, value) ==
    IF value.kind # "bool"
    THEN Raise("TypeError")
    ELSE /\ ret' = Return(<<>>)
         /\ UNCHANGED <<live, fs, states>>
         /\ handles' = [handles EXCEPT ![h].transfer_ownership = value.v]

\* set_transfer_ownership(memmap, value) of the module: the method for a
\* MemmapTensor, nothing for any other value.
module_set_transfer_ownership(memmap, value) ==
    IF memmap.kind = "MemmapTensor"
    THEN set_transfer_ownership(memmap.id, value)
    ELSE /\ ret' = Return(<<>>)
         /\ UNCHANGED <<handles, live, fs, states>>

\* __reduce__ leaving the delete flag of the file alone.
ReduceKeepsDelete(self) == self

\* __reduce__ clearing the delete flag whatever transfer_ownership is.
ReduceAlwaysReleases(self) == [self EXCEPT !.file.delete = FALSE]

\* MemmapTensor.__reduce__, before it calls object.__reduce__: self after.
__reduce__(self) ==
    IF self.transfer_ownership
    THEN [self EXCEPT !.file.delete = FALSE]
    ELSE self

\* __getstate__ leaving the mapping in the state.
GetstateKeepsMapping(self) == [self EXCEPT !.file = NoFile]

\* __getstate__ copying __dict__ after it has updated _has_ownership.
GetstateAfterUpdate(self) ==
    [self EXCEPT !.file = NoFile, !._memmap_array = NoMap,
                 !._has_ownership = self.file.delete]

\* MemmapTensor.__getstate__: the state returned.
__getstate__(self) ==
    [self EXCEPT !.file = NoFile, !._memmap_array = NoMap]

\* __getstate__ leaving the _has_ownership of self as it is.
GetstateSelfKeeps(self) == self

\* MemmapTensor.__getstate__: self after.
GetstateSelf(self) == [self EXCEPT !._has_ownership = self.file.delete]

\* pickle.dumps(h): __reduce__, whose object.__reduce__ calls __getstate__.
Serialize(h) ==
    /\ ret' = Return(<<>>)
    /\ UNCHANGED <<live, fs>>
    /\ LET self == __reduce__(handles[h])
       IN /\ states' = Append(states, __getstate__(self))
          /\ handles' = [handles EXCEPT ![h] = GetstateSelf(self)]

\* __setstate__ taking the serialized _has_ownership alone for the flag.
SetstateIgnoresTransfer(state) ==
    LET delete == state._has_ownership
    IN [state EXCEPT !._has_ownership = delete,
                     !.file = [name |-> state.filename, delete |-> delete]]

\* __setstate__ creating its file object with the default delete=True.
SetstateDeleteDefault(state) ==
    LET delete == state.transfer_ownership /\ state._has_ownership
    IN [state EXCEPT !._has_ownership = delete,
                     !.file = [name |-> state.filename, delete |-> TRUE]]

\* MemmapTensor.__setstate__: the __dict__ after the update, state being
\* the freshly unpickled dict (its file is None).
__setstate__(state) ==
    LET delete == state.transfer_ownership /\ state._has_ownership
    IN [state EXCEPT !._has_ownership = delete,
                     !.file = [name |-> state.filename, delete |-> delete]]

\* pickle.loads of the s-th pickled state: a new object, then __setstate__,
\* whose NamedTemporaryFile creates a file of its own before it is renamed.
Deserialize(s) ==
    /\ ret' = Return(<<>>)
    /\ UNCHANGED states
    /\ handles' = Append(handles, __setstate__(states[s]))
    /\ live' = live \cup {Len(handles) + 1}
    /\ fs' = NamedTemporaryFile(fs)

\* What is remembered of a destroyed object: the name of its file.
Gone(self) ==
    [filename |-> self.filename,
     file |-> NoFile,
     transfer_ownership |-> FALSE,
     _has_ownership |-> FALSE,
     _memmap_array |-> NoMap,
     _device |-> "cpu",
     _shape |-> <<>>,
     _dtype |-> "float32"]

\* __del__ letting the FileNotFoundError of the unlink reach the caller,
\* the object staying as it is.
DelPropagates(h) ==
    IF handles[h].file.delete /\ ~fs[handles[h].filename].exists
    THEN Raise("FileNotFoundError")
    ELSE /\ ret' = Return(<<>>)
         /\ UNCHANGED states
         /\ fs' = FileClose(handles[h].file, fs)
         /\ live' = live \ {h}
         /\ handles' = [handles EXCEPT ![h] = Gone(@)]

\* MemmapTensor.__del__: the last reference to h is dropped.
__del__(h) ==
    /\ ret' = Return(<<>>)
    /\ UNCHANGED states
    /\ fs' = FileClose(handles[h].file, fs)
    /\ live' = live \ {h}
    /\ handles' = [handles EXCEPT ![h] = Gone(@)]

----------------------------------------------------------------------------
\* Reads and writes

\* self._load_item()[item], for a handle whose mapping can be opened.
Item(h, item) ==
    _load_item(_get_memmap_array(handles[h]), MapFile(handles[h], fs)).data[item]

\* MemmapTensor.__getitem__: the materialized tensor, indexed.
__getitem__(h, item) ==
    LET self == handles[h] IN
    IF ~CanOpen(self, fs)
    THEN Raise("FileNotFoundError")
    ELSE /\ ret' = Return(<<Item(h, item)>>)
         /\ UNCHANGED <<live, states>>
         /\ handles' = [handles EXCEPT ![h] = _get_memmap_array(self)]
         /\ fs' = MapFile(self, fs)

\* MemmapTensor.__setitem__: the assignment is made to the materialized
\* tensor, and reaches the mapping only if that tensor shares its memory.
__setitem__(h, idx, value) ==
    LET self == handles[h] IN
    IF ~CanOpen(self, fs)
    THEN Raise("FileNotFoundError")
    ELSE LET self1 == _get_memmap_array(self)
             fs1 == MapFile(self, fs)
         IN /\ ret' = Return(<<>>)
            /\ UNCHANGED <<live, states>>
            /\ handles' = [handles EXCEPT ![h] = self1]
            /\ fs' = IF Aliases(self1)
                     THEN [fs1 EXCEPT ![self1._memmap_array].data[idx] = value]
                     ELSE fs1

\* MemmapTensor.copy_: other.cpu().numpy() (which a tensor that requires
\* grad refuses) is written over the whole mapping.
copy_(h, other) ==
    LET self == handles[h] IN
    IF other.requires_grad
    THEN Raise("RuntimeError")
    ELSE IF ~CanOpen(self, fs)
    THEN Raise("FileNotFoundError")
    ELSE LET self1 == _get_memmap_array(self)
         IN /\ ret' = Return(<<>>)
            /\ UNCHANGED <<live, states>>
            /\ handles' = [handles EXCEPT ![h] = self1]
            /\ fs' = _save_item(self1, MapFile(self, fs), other, NoIdx)

\* The types __eq__ accepts.
EqTypes == {"MemmapTensor", "Tensor", "float", "int", "ndarray"}

\* tensor == other comparing with the first element of other only.
TensorEqFirst(data, other) == [i \in 1..Len(data) |-> data[i] = other[1]]

\* tensor == other of the external library: elementwise, a scalar being
\* compared with every element.
TensorEq(data, other) ==
    [i \in 1..Len(data) |->
        data[i] = (IF Len(other) = 1 THEN other[1] ELSE other[i])]

\* MemmapTensor.__eq__: self._tensor == other; __torch_function__
\* materializes an other that is a MemmapTensor.
__eq__(h, other) ==
    LET self == handles[h] IN
    IF other.kind \notin EqTypes
    THEN Raise("NotImplementedError")
    ELSE IF ~CanOpen(self, fs)
    THEN Raise("FileNotFoundError")
    ELSE LET self1 == _get_memmap_array(self)
             fs1 == MapFile(self, fs)
             hs1 == [handles EXCEPT ![h] = self1]
         IN IF other.kind # "MemmapTensor"
            THEN /\ ret' = Return(TensorEq(_load_item(self1, fs1).data, other.data))
                 /\ UNCHANGED <<live, states>>
                 /\ handles' = hs1
                 /\ fs' = fs1
            ELSE IF ~CanOpen(hs1[other.id], fs1)
            THEN /\ ret' = Raised("FileNotFoundError")
                 /\ UNCHANGED <<live, states>>
                 /\ handles' = hs1
                 /\ fs' = fs1
            ELSE LET o == hs1[other.id]
                     o1 == _get_memmap_array(o)
                     fs2 == MapFile(o, fs1)
                 IN /\ ret' = Return(TensorEq(_load_item(self1, fs2).data,
                                              _load_item(o1, fs2).data))
                    /\ UNCHANGED <<live, states>>
                    /\ handles' = [hs1 EXCEPT ![other.id] = o1]
                    /\ fs' = fs2

\* The tensor t[:, ..., :, i], the index i (from 0) standing at the
\* position axis (from 1): the elements whose coordinate on that axis is i,
\* in row-major order, the axis being dropped from the shape.
Stride(shape, axis) == Numel(SubSeq(shape, axis + 1, Len(shape)))
Coord(shape, axis, p) == ((p - 1) \div Stride(shape, axis)) % shape[axis]
Select(t, axis, i) ==
    LET P == {p \in 1..Numel(t.shape) : Coord(t.shape, axis, p) = i}
        Nth(k) == CHOOSE p \in P : Cardinality({q \in P : q < p}) = k - 1
    IN Arg("Tensor", 0, t.device, t.dtype,
           SubSeq(t.shape, 1, axis - 1) \o SubSeq(t.shape, axis + 1, Len(t.shape)),
           [k \in 1..Cardinality(P) |-> t.data[Nth(k)]], FALSE)

\* MemmapTensor.unbind: self.shape[dim] indices, each preceded by
\* len(range(dim)) full slices (none for a negative dim), each read with
\* __getitem__, which refuses an index beyond the size of its axis.
unbind(h, dim) ==
    LET self == handles[h]
        ndim == Len(self._shape)
        pos == IF dim >= 0 THEN dim + 1 ELSE ndim + dim + 1
        lead == IF dim > 0 THEN dim ELSE 0
    IN IF pos \notin 1..ndim
       THEN Raise("IndexError")
       ELSE IF ~CanOpen(self, fs)
       THEN Raise("FileNotFoundError")
       ELSE LET self1 == _get_memmap_array(self)
                fs1 == MapFile(self, fs)
                tensor == _load_item(self1, fs1)
            IN /\ ret' = IF self._shape[pos] > self._shape[lead + 1]
                         THEN Raised("IndexError")
                         ELSE Return([i \in 1..self._shape[pos] |->
                                        Select(tensor, lead + 1, i - 1)])
               /\ UNCHANGED <<live, states>>
               /\ handles' = [handles EXCEPT ![h] = self1]
               /\ fs' = fs1

----------------------------------------------------------------------------
\* The values passed to set_transfer_ownership: the booleans, and an int.
BoolValues == {[kind |-> "bool", v |-> b] : b \in BOOLEAN}
OwnershipValues == BoolValues \cup {[kind |-> "int", v |-> TRUE]}

\* The operands of == with a handle on the host and with one on the
\* accelerator: tensors and arrays on that device, the scalars, a string.
HostOthers ==
    {t \in Tensors : t.device = "cpu" /\ ~t.requires_grad /\ t.data[1] = 0}
    \cup Scalars \cup NonTensors
AccelOthers ==
    {t \in Tensors : t.device = "cuda:0" /\ t.data[1] = 0}
    \cup Scalars \cup {n \in NonTensors : n.kind = "str"}
Others(device) == IF device = "cpu" THEN HostOthers ELSE AccelOthers

\* The handles on the device of h, as operands of == with h.
Peers(h) == {e \in live : handles[e]._device = handles[h]._device}

\* The sources given to the constructor.
Sources == Tensors \cup NonTensors

Init ==
    /\ handles = <<>>
    /\ live = {}
    /\ fs = <<>>
    /\ states = <<>>
    /\ ret = Return(<<>>)

\* The source of the ownership protocol's specification: one tensor.
OwnSources == {t \in Tensors : t.data = Zeros /\ t.device = "cpu" /\ ~t.requires_grad}

Construct(srcs, flags, maxh) ==
    /\ Len(handles) < maxh
    /\ \E elem \in srcs, t \in flags : __init__(elem, t)
Clone(maxh) ==
    /\ Len(handles) < maxh
    /\ \E h \in live : clone(h)
SetTransferOwnership(values) ==
    \E h \in live, value \in values : set_transfer_ownership(h, value)
SetTransferOwnershipOf(values) ==
    \E memmap \in {Memmap(h) : h \in live} \cup OwnSources, value \in values :
        module_set_transfer_ownership(memmap, value)
Pickle(maxs) ==
    /\ Len(states) < maxs
    /\ \E h \in live : Serialize(h)
Unpickle(maxh) ==
    /\ Len(handles) < maxh
    /\ \E s \in 1..Len(states) : Deserialize(s)
Destroy == \E h \in live : __del__(h)
GetItem == \E h \in live, item \in 1..2 : __getitem__(h, item)
SetItem == \E h \in live, idx \in 1..2, value \in Values : __setitem__(h, idx, value)
CopyFrom == \E h \in live, other \in Tensors : copy_(h, other)
Equals ==
    \E h \in live :
        \/ \E other \in Others(handles[h]._device) : __eq__(h, other)
        \/ \E e \in Peers(h) : __eq__(h, Memmap(e))

\* The ownership protocol: construction, transfer and destruction.
Next ==
    \/ Construct(OwnSources, BOOLEAN, MaxHandles)
    \/ Clone(MaxHandles)
    \/ SetTransferOwnership(BoolValues)
    \/ Pickle(MaxStates)
    \/ Unpickle(MaxHandles)
    \/ Destroy

Spec == Init /\ [][Next]_vars

\* The content of the mapped files: construction with its checks of the
\* arguments, reads and writes.
NextData ==
    \/ Construct(Sources, {FALSE}, MaxDataHandles)
    \/ Clone(MaxDataHandles)
    \/ SetTransferOwnership(OwnershipValues)
    \/ Destroy
    \/ GetItem
    \/ SetItem
    \/ CopyFrom

SpecData == Init /\ [][NextData]_vars

\* The sources of the serialization specification: two tensors per
\* (device, dtype, shape).
PickleSources == {t \in Tensors : ~t.requires_grad /\ t.data[1] = 0}

\* Serialization of handles whose content changes.
NextPickle ==
    \/ Construct(PickleSources, BOOLEAN, MaxDataHandles)
    \/ Pickle(MaxDataStates)
    \/ Unpickle(MaxDataHandles)
    \/ Destroy
    \/ GetItem
    \/ SetItem

SpecPickle == Init /\ [][NextPickle]_vars

\* Comparison of the mapped content.
NextEq ==
    \/ Construct(Tensors, {FALSE}, MaxDataHandles)
    \/ Equals
    \/ Destroy

SpecEq == Init /\ [][NextEq]_vars

\* Changes of transfer_ownership, by the method and by the function of the
\* module, between serializations.
NextTransfer ==
    \/ Construct(OwnSources, BOOLEAN, MaxDataHandles)
    \/ SetTransferOwnership(OwnershipValues)
    \/ SetTransferOwnershipOf(OwnershipValues)
    \/ Pickle(MaxDataStates)
    \/ Unpickle(MaxDataHandles)
    \/ Destroy

SpecTransfer == Init /\ [][NextTransfer]_vars

\* The sources of the specification of unbind: tensors of one and of two
\* dimensions on the host; the values of dim a caller passes.
UnbindSources ==
    { Arg("Tensor", 0, "cpu", "float32", s, d, FALSE) :
        s \in {<<2>>, <<1, 2>>, <<2, 1>>}, d \in {e \in Datas : e[1] = 0} }
Dims == -3..2

\* torch.unbind(memmap, dim), which calls memmap.unbind(dim).
Unbind == \E h \in live, dim \in Dims : unbind(h, dim)

\* Splitting along a dimension.
NextUnbind ==
    \/ Construct(UnbindSources, {FALSE}, MaxDataHandles)
    \/ Unbind
    \/ SetItem
    \/ Destroy

SpecUnbind == Init /\ [][NextUnbind]_vars

----------------------------------------------------------------------------
\* Ownership of the backing file

\* The handle made by the step, and the pickled state made by the step.
NewHandle == handles'[Len(handles')]
NewState == states'[Len(states')]

\* The step pickles a state, creates a handle, destroys the handle h.
Pickles == Len(states') = Len(states) + 1
Creates == Len(handles') = Len(handles) + 1
Destroys(h) == h \in live /\ h \notin live'

\* The live handles on file name that are marked as its owner.
Owners(name) ==
    {h \in live : handles[h].filename = name /\ handles[h]._has_ownership}

\* C1: for each backing file there are never two live handles with
\* _has_ownership = True, whatever sequence of construct, clone,
\* set_transfer_ownership, serialize, deserialize and destroy led there.
C1_SingleOwner ==
    \A name \in 1..Len(fs) : Cardinality(Owners(name)) <= 1

\* C2 as stated: serializing any handle whose transfer_ownership is True
\* leaves it without ownership and without delete-on-close, and the handle
\* deserialized from a state serialized with transfer_ownership owns the file.
C2_AnyHandle ==
    [][/\ \A h \in live :
            (Pickles /\ handles[h].transfer_ownership /\ Serialize(h)) =>
                /\ ~handles'[h]._has_ownership
                /\ ~handles'[h].file.delete
       /\ \A s \in 1..Len(states) :
            (Creates /\ states[s].transfer_ownership /\ Deserialize(s)) =>
                NewHandle._has_ownership]_vars

\* C2 amended: serializing a handle that owns its file and whose
\* transfer_ownership is True leaves it without ownership and without
\* delete-on-close, for good, so that destroying it leaves the file; and the
\* handle deserialized from the state it produced owns the file.
C2_Transfer ==
    [][/\ \A h \in live :
            (Pickles /\ handles[h].transfer_ownership /\ Serialize(h)) =>
                /\ ~handles'[h]._has_ownership
                /\ ~handles'[h].file.delete
                /\ NewState.transfer_ownership
                /\ NewState._has_ownership = handles[h]._has_ownership
       /\ \A s \in 1..Len(states) :
            (Creates /\ states[s].transfer_ownership
                /\ states[s]._has_ownership /\ Deserialize(s)) =>
                /\ NewHandle._has_ownership
                /\ NewHandle.file.delete
                /\ NewHandle.filename = states[s].filename
       /\ \A h \in live :
            (~handles[h]._has_ownership /\ h \in live') =>
                /\ ~handles'[h]._has_ownership
                /\ ~handles'[h].file.delete
       /\ \A h \in live :
            (Destroys(h) /\ ~handles[h]._has_ownership) => fs' = fs]_vars

\* C2 witness: a handle that gave its ownership away is live next to the
\* deserialized handle that received it.
C2_Witness ==
    \E h1, h2 \in live :
        /\ h1 < h2
        /\ handles[h1].filename = handles[h2].filename
        /\ handles[h1].transfer_ownership
        /\ ~handles[h1]._has_ownership
        /\ ~handles[h1].file.delete
        /\ handles[h2]._has_ownership
        /\ fs[handles[h1].filename].exists

\* C3: serializing a handle whose transfer_ownership is False changes
\* neither the handle (its _has_ownership and delete-on-close stay as they
\* are) nor any file, and the handle deserialized from a state serialized
\* with transfer_ownership False owns nothing.
C3_NoTransfer ==
    [][/\ \A h \in live :
            (Pickles /\ ~handles[h].transfer_ownership /\ Serialize(h)) =>
                /\ handles'[h] = handles[h]
                /\ ~NewState.transfer_ownership
                /\ fs' = fs
       /\ \A s \in 1..Len(states) :
            (Creates /\ ~states[s].transfer_ownership /\ Deserialize(s)) =>
                /\ ~NewHandle._has_ownership
                /\ ~NewHandle.file.delete]_vars

\* C3 witness: an owner serialized without transfer is still the owner,
\* next to the handle deserialized from it, which is not.
C3_Witness ==
    \E h1, h2 \in live :
        /\ h1 < h2
        /\ handles[h1].filename = handles[h2].filename
        /\ ~handles[h1].transfer_ownership
        /\ handles[h1]._has_ownership
        /\ handles[h1].file.delete
        /\ ~handles[h2]._has_ownership
        /\ Cardinality(Owners(handles[h1].filename)) = 1

\* C4: destroying a handle with _has_ownership = True removes its backing
\* file and no other, destroying one with _has_ownership = False leaves
\* every file as it is.
C4_DestroyDeletesIffOwner ==
    [][\A h \in live :
        Destroys(h) =>
            IF handles[h]._has_ownership
            THEN /\ ~fs'[handles[h].filename].exists
                 /\ \A n \in 1..Len(fs) :
                        n # handles[h].filename => fs'[n] = fs[n]
            ELSE fs' = fs]_vars

\* C4 witness: one destroyed handle's file is gone and another destroyed
\* handle's file is still there.
C4_Witness ==
    \E h1, h2 \in (1..Len(handles)) \ live :
        /\ ~fs[handles[h1].filename].exists
        /\ fs[handles[h2].filename].exists

----------------------------------------------------------------------------
\* Content of the mapped files

C6_WriteThenRead ==
    [][\A h \in live :
        /\ \A idx \in 1..2, value \in Values :
            (ret'.err = "none" /\ __setitem__(h, idx, value)) =>
                Item(h, idx)' = value
        /\ \A other \in Tensors :
            (ret'.err = "none" /\ copy_(h, other)) =>
                \A idx \in 1..2 : Item(h, idx)' = other.data[idx]]_vars

\* C7: the handle constructed from a tensor x has the shape and dtype of
\* x, and materializes to x.
C7_RoundTrip ==
    [][\A elem \in Tensors, t \in BOOLEAN :
        (Creates /\ ret'.err = "none" /\ __init__(elem, t)) =>
            /\ NewHandle._shape = elem.shape
            /\ NewHandle._dtype = elem.dtype
            /\ fs'[NewHandle.filename].exists
            /\ _load_item(NewHandle, fs') = elem]_vars

\* C7 witness: a handle on an accelerator materializes to a tensor of the
\* sources that is not all zeros, no handle having been pickled.
C7_Witness ==
    \E h \in live :
        /\ handles[h]._device = "cuda:0"
        /\ handles[h]._memmap_array # NoMap
        /\ _load_item(handles[h], fs) \in Tensors
        /\ _load_item(handles[h], fs).data = <<1, 0>>
        /\ Len(states) = 0

\* C8: the pickled state has the shape, dtype, device, file name and
\* transfer_ownership of the handle and neither its mapping nor its file
\* object; the handle restored from it has the same five attributes and no
\* mapping, and its first read opens the file of that name and returns the
\* content the file has then.
C8_PickleRoundTrip ==
    [][/\ \A h \in live :
            (Pickles /\ Serialize(h)) =>
                /\ NewState._shape = handles[h]._shape
                /\ NewState._dtype = handles[h]._dtype
                /\ NewState._device = handles[h]._device
                /\ NewState.filename = handles[h].filename
                /\ NewState.transfer_ownership = handles[h].transfer_ownership
                /\ NewState.file = NoFile
                /\ NewState._memmap_array = NoMap
       /\ \A s \in 1..Len(states) :
            (Creates /\ Deserialize(s)) =>
                /\ NewHandle._shape = states[s]._shape
                /\ NewHandle._dtype = states[s]._dtype
                /\ NewHandle._device = states[s]._device
                /\ NewHandle.filename = states[s].filename
                /\ NewHandle.transfer_ownership = states[s].transfer_ownership
                /\ NewHandle._memmap_array = NoMap
                /\ \A n \in 1..Len(fs) : fs'[n] = fs[n]
       /\ \A h \in live, item \in 1..2 :
            (handles[h]._memmap_array = NoMap /\ fs[handles[h].filename].exists
                /\ __getitem__(h, item)) =>
                /\ ret' = Return(<<fs[handles[h].filename].data[item]>>)
                /\ handles'[h]._memmap_array = handles[h].filename
                /\ fs' = fs]_vars

\* C8 witness: a restored handle has opened its mapping and read a value
\* that an indexed write put into the file.
C8_Witness ==
    \E h1, h2 \in live :
        /\ h1 < h2
        /\ handles[h2].filename = handles[h1].filename
        /\ handles[h2]._memmap_array = handles[h1].filename
        /\ handles[h2].transfer_ownership
        /\ handles[h2]._device = "cpu"
        /\ fs[handles[h1].filename].data = <<1, 1>>
        /\ ret = Return(<<1>>)

\* C9: constructing from a source that is no tensor, or from a tensor that
\* requires grad, raises (TypeError, RuntimeError) and leaves the handles,
\* the files and the pickled states as they were.
C9_ConstructionFails ==
    [][\A elem \in Sources, t \in BOOLEAN :
        ((elem.kind # "Tensor" \/ elem.requires_grad) /\ __init__(elem, t)) =>
            /\ ret'.err = (IF elem.kind # "Tensor" THEN "TypeError" ELSE "RuntimeError")
            /\ UNCHANGED <<handles, live, fs, states>>]_vars

\* C9 witness: the first construction has failed with TypeError, so that
\* there is still no handle and no file.
C9_Witness ==
    /\ ret.err = "TypeError"
    /\ handles = <<>>
    /\ fs = <<>>

\* The value == returns for the content data and the operand other.
Compared(data, other, i) ==
    data[i] = (IF other.shape = <<>> THEN other.data[1] ELSE other.data[i])

----------------------------------------------------------------------------
\* Ownership across serialization

\* The pickled state gives ownership to the handle restored from it.
Confers(state) == state.transfer_ownership /\ state._has_ownership

\* C12: the pickled state carries the transfer_ownership of the handle and
\* the _has_ownership the handle had before it was serialized; the handle
\* restored from a state has _has_ownership and delete-on-close equal to
\* (transfer_ownership and _has_ownership) of the state; so a handle
\* without ownership pickles to a state that restores without ownership,
\* whatever its transfer_ownership.
C12_RestoredOwnership ==
    [][/\ \A h \in live :
            (Pickles /\ Serialize(h)) =>
                /\ NewState.transfer_ownership = handles[h].transfer_ownership
                /\ NewState._has_ownership = handles[h]._has_ownership
                /\ ~handles[h]._has_ownership =>
                        ~__setstate__(NewState)._has_ownership
       /\ \A s \in 1..Len(states) :
            /\ states'[s] = states[s]
            /\ (Creates /\ Deserialize(s)) =>
                /\ NewHandle._has_ownership = Confers(states[s])
                /\ NewHandle.file.delete = Confers(states[s])
                /\ NewHandle.file.name = states[s].filename]_vars

\* C12 witness: of two states pickled with transfer_ownership the first
\* confers ownership and the second, pickled by a handle without, does
\* not; the handle restored from the second is live and owns nothing.
C12_Witness ==
    /\ Len(states) = 2
    /\ Confers(states[1])
    /\ states[2].transfer_ownership
    /\ ~states[2]._has_ownership
    /\ Len(handles) = 2
    /\ 2 \in live
    /\ handles[2]._memmap_array = NoMap
    /\ handles[2].transfer_ownership
    /\ ~handles[2]._has_ownership
    /\ ~handles[2].file.delete

\* C13: set_transfer_ownership(value), as a method and as the function
\* of the module, sets the transfer_ownership of its handle and nothing
\* else: not the handle's _has_ownership, file object (delete-on-close),
\* file name or mapping, no other handle, no file, no pickled state; the
\* next serialization of the handle carries value.  The function of the
\* module changes nothing when given a tensor.
C13_OnlyTransferOwnership ==
    [][(live' = live /\ ~Creates /\ ~Pickles) =>
        /\ \A h \in live, value \in BoolValues :
            (set_transfer_ownership(h, value)
                \/ module_set_transfer_ownership(Memmap(h), value)) =>
                /\ handles'[h].transfer_ownership = value.v
                /\ handles'[h]._has_ownership = handles[h]._has_ownership
                /\ handles'[h].file = handles[h].file
                /\ handles'[h].filename = handles[h].filename
                /\ handles'[h]._memmap_array = handles[h]._memmap_array
                /\ \A k \in 1..Len(handles) : k # h => handles'[k] = handles[k]
                /\ fs' = fs
                /\ states' = states
                /\ __getstate__(__reduce__(handles'[h])).transfer_ownership = value.v
        /\ \A elem \in OwnSources, value \in BoolValues :
            module_set_transfer_ownership(elem, value) =>
                UNCHANGED <<handles, live, fs, states>>]_vars

\* C13 witness: the first handle was pickled with transfer_ownership False
\* and has it True now; it still owns its file, and the pickled state is
\* as it was.
C13_Witness ==
    /\ Len(states) >= 1
    /\ ~states[1].transfer_ownership
    /\ states[1]._has_ownership
    /\ states[1].filename = 1
    /\ 1 \in live
    /\ handles[1].transfer_ownership
    /\ handles[1]._has_ownership
    /\ handles[1].file.delete
    /\ fs[1].exists

\* The names of the backing files: those a handle has had.
BackingFiles == {handles[k].filename : k \in 1..Len(handles)}

\* C14 as stated: once every live handle on a backing file has been
\* destroyed, the file no longer exists.
C14_AllDestroyed ==
    \A name \in BackingFiles :
        (\A h \in live : handles[h].filename # name) => ~fs[name].exists

\* C14 amended: as long as a backing file exists, a live handle with
\* _has_ownership references it or a state pickled with transfer_ownership
\* from a handle with _has_ownership exists for it; so once every live
\* handle on it has been destroyed the file no longer exists, unless its
\* ownership was handed to such a state.
C14_OwnershipHeld ==
    \A name \in BackingFiles :
        fs[name].exists =>
            \/ Owners(name) # {}
            \/ \E s \in 1..Len(states) :
                    Confers(states[s]) /\ states[s].filename = name

\* C14 witness: the first handle handed the ownership of its file to a
\* pickled state, a handle was restored on that file, every handle has been
\* destroyed and the file is gone.
C14_Witness ==
    /\ live = {}
    /\ Len(handles) >= 2
    /\ handles[2].filename = 1
    /\ Len(states) >= 1
    /\ Confers(states[1])
    /\ ~fs[1].exists

Linked(fsys) == {n \in 1..Len(fsys) : fsys[n].exists}

\* C16: deserialization creates no file, the files on the filesystem
\* being the same before and after it; destroying the restored handle
\* removes no file but the one it names; no file is ever left that is not
\* the backing file of a handle.
C16_NoStrayFile ==
    [][/\ \A s \in 1..Len(states) :
            (Creates /\ Deserialize(s)) => Linked(fs') = Linked(fs)
       /\ \A h \in live :
            Destroys(h) => Linked(fs) \ Linked(fs') \subseteq {handles[h].filename}
       /\ Linked(fs') \subseteq BackingFiles']_vars

\* C17: of the states pickled from one handle at most one confers
\* ownership.  A state that confers ownership comes from a handle that had
\* _has_ownership and transfer_ownership, and leaves it without
\* _has_ownership; a handle without _has_ownership stays without, whatever
\* set_transfer_ownership and serialization do to it, and the state it
\* would pickle next, whatever its transfer_ownership then, restores to a
\* handle without _has_ownership.
C17_OneConferringState ==
    [][/\ \A h \in live :
            (Pickles /\ Serialize(h)) =>
                /\ Confers(NewState) =>
                    /\ handles[h]._has_ownership
                    /\ handles[h].transfer_ownership
                    /\ ~handles'[h]._has_ownership
                /\ handles[h].transfer_ownership => ~handles'[h]._has_ownership
       /\ \A h \in live \cap live' :
            ~handles[h]._has_ownership =>
                /\ ~handles'[h]._has_ownership
                /\ \A v \in BOOLEAN :
                    LET self == [handles'[h] EXCEPT !.transfer_ownership = v]
                    IN ~__setstate__(__getstate__(__reduce__(self)))._has_ownership]_vars

\* C17 witness: the only handle there is has been pickled twice with
\* transfer_ownership, and the first state confers ownership while the
\* second does not.
C17_Witness ==
    /\ Len(handles) = 1
    /\ Len(states) = 2
    /\ Confers(states[1])
    /\ states[2].transfer_ownership
    /\ ~Confers(states[2])
    /\ 1 \in live
    /\ ~handles[1]._has_ownership

\* C18: after every operation, each live handle's _has_ownership equals
\* the delete flag of its file object, which decides the removal of the
\* file at destruction; both are True for the handle a construction or a
\* clone has made, whatever the flags of the source.
C18_OwnershipIsDelete ==
    [][/\ \A h \in live' :
            /\ handles'[h]._has_ownership = handles'[h].file.delete
            /\ handles'[h].file.name = handles'[h].filename
       /\ Creates =>
            /\ \A elem \in OwnSources, t \in BOOLEAN :
                __init__(elem, t) =>
                    NewHandle._has_ownership /\ NewHandle.file.delete
            /\ \A h \in live :
                clone(h) =>
                    NewHandle._has_ownership /\ NewHandle.file.delete]_vars

\* C18 witness: a handle that gave its ownership away, the handle restored
\* with it, and a handle on a file of its own are live; the first has
\* neither flag and the others have both.
C18_Witness ==
    \E h1, h2, h3 \in live :
        /\ handles[h1].filename = handles[h2].filename
        /\ handles[h3].filename # handles[h1].filename
        /\ ~handles[h1]._has_ownership /\ ~handles[h1].file.delete
        /\ handles[h1]._memmap_array # NoMap
        /\ handles[h2]._has_ownership /\ handles[h2].file.delete
        /\ handles[h2]._memmap_array = NoMap
        /\ handles[h3]._has_ownership /\ handles[h3].file.delete
        /\ ~handles[h3].transfer_ownership

----------------------------------------------------------------------------
\* Splitting

\* unbind of the external library: dim counted from the last dimension
\* when negative, one slice per index of that dimension.
Accepted(shape, dim) == -Len(shape) <= dim /\ dim < Len(shape)
TorchUnbind(t, dim) ==
    LET axis == IF dim >= 0 THEN dim + 1 ELSE Len(t.shape) + dim + 1
    IN [i \in 1..t.shape[axis] |-> Select(t, axis, i - 1)]

\* C11: for every dim the external library's unbind accepts (negative dim
\* counted from the last dimension), unbind(dim) returns shape[dim] slices
\* in index order, slice i being the materialized array indexed at i along
\* dimension dim.
C11_Unbind ==
    [][\A h \in live, dim \in Dims :
        (Accepted(handles[h]._shape, dim) /\ unbind(h, dim)) =>
            ret' = Return(TorchUnbind(_load_item(handles'[h], fs'), dim))]_vars

====
